---------------------------- MODULE Spec2Model ----------------------------
(***************************************************************************)
(* The experiment combinators of epyc: RepeatedExperiment, which runs an   *)
(* underlying experiment N times at one parameter point and reduces the    *)
(* records to mean and variance, and SummaryExperiment, which reduces the  *)
(* list of records an underlying experiment returns to mean, median and    *)
(* variance.                                                               *)
(*                                                                         *)
(* A result record is [parameters, metadata, results], each part a map     *)
(* from field names to values.  A statistic is held exactly, as a reduced  *)
(* fraction [n, d]; the not-a-number numpy yields for an empty list is     *)
(* the fraction 0/0.                                                       *)
(***************************************************************************)
EXTENDS Integers, Sequences, FiniteSets, TLC

(***************************************************************************)
(* Bounds of the model.                                                    *)
(***************************************************************************)
\* the largest repetition count N a RepeatedExperiment is constructed with
MaxN == 3
\* the longest list of records the experiment under a SummaryExperiment returns
MaxRecords == 3
\* the number of do() calls made on one combinator
MaxCalls == 2

\* values a result field takes, and elapsed times a run reports
Values == {1, 2}
Times == {1, 3}
\* the points of the parameter space ('x' is the parameter of the tests)
ParameterSpace == {[x |-> 5], [x |-> 10]}

(***************************************************************************)
(* Exact numbers.                                                          *)
(***************************************************************************)
Abs(a) == IF a < 0 THEN -a ELSE a

RECURSIVE GCD(_, _)
GCD(a, b) == IF b = 0 THEN a ELSE GCD(b, a % b)

NaN == [n |-> 0, d |-> 0]

\* the number num/den, den # 0, as a reduced fraction with positive denominator
Rat(num, den) ==
    LET g == GCD(Abs(num), Abs(den))
        s == IF den < 0 THEN -1 ELSE 1
    IN [n |-> s * (num \div g), d |-> s * (den \div g)]

RSub(a, b) == Rat(a.n * b.d - b.n * a.d, a.d * b.d)
RAdd(a, b) == Rat(a.n * b.d + b.n * a.d, a.d * b.d)
RMul(a, b) == Rat(a.n * b.n, a.d * b.d)

RECURSIVE Sum(_)
Sum(vs) == IF Len(vs) = 0 THEN 0 ELSE Head(vs) + Sum(Tail(vs))

RECURSIVE RSum(_)
RSum(qs) == IF Len(qs) = 0 THEN Rat(0, 1) ELSE RAdd(Head(qs), RSum(Tail(qs)))

\* numpy.mean: the sum over the count; not-a-number (and a warning, no
\* exception) for an empty list
Mean(vs) == IF Len(vs) = 0 THEN NaN ELSE Rat(Sum(vs), Len(vs))

\* the mean of the squares, the mean left unsubtracted
VarOfSquares(vs) ==
    IF Len(vs) = 0 THEN NaN
    ELSE RMul(RSum([i \in 1..Len(vs) |-> Rat(vs[i] * vs[i], 1)]), Rat(1, Len(vs)))

\* numpy.var: the mean of the squared deviations from the mean (population
\* variance); not-a-number for an empty list
Var(vs) ==
    IF Len(vs) = 0 THEN NaN
    ELSE LET m  == Mean(vs)
             dv == [i \in 1..Len(vs) |-> RSub(Rat(vs[i], 1), m)]
             sq == [i \in 1..Len(vs) |-> RMul(dv[i], dv[i])]
         IN RMul(RSum(sq), Rat(1, Len(vs)))

RECURSIVE Insert(_, _)
Insert(v, sorted) ==
    IF Len(sorted) = 0 THEN <<v>>
    ELSE IF v <= Head(sorted) THEN <<v>> \o sorted
    ELSE <<Head(sorted)>> \o Insert(v, Tail(sorted))

RECURSIVE Sort(_)
Sort(vs) == IF Len(vs) = 0 THEN <<>> ELSE Insert(Head(vs), Sort(Tail(vs)))

\* the upper middle value, also for an even count
UpperMedian(vs) ==
    IF Len(vs) = 0 THEN NaN ELSE Rat(Sort(vs)[(Len(vs) \div 2) + 1], 1)

\* numpy.median: the middle of the sorted values, the mean of the two middle
\* ones for an even count; not-a-number for an empty list
Median(vs) ==
    IF Len(vs) = 0 THEN NaN
    ELSE LET s == Sort(vs)
             h == Len(vs) \div 2
         IN IF Len(vs) % 2 = 1 THEN Rat(s[h + 1], 1)
            ELSE Rat(s[h] + s[h + 1], 2)


(***************************************************************************)
(* Result records and the fields the combinators read and write.           *)
(***************************************************************************)
\* the three parts of a result record and the metadata fields read here
PARAMETERS == "parameters"
METADATA == "metadata"
RESULTS == "results"
STATUS == "status"
ELAPSED_TIME == "elapsed_time"

\* RepeatedExperiment's additional metadata and its prefix and suffixes
REQUESTED_REPETITIONS == "requested_repetitions"
REPETITIONS == "repetitions"
MEAN_SUFFIX == "_mean"
VARIANCE_SUFFIX == "_variance"
UNDERLYING_PREFIX == "underlying_"

\* SummaryExperiment's additional metadata and its extra suffix
UNDERLYING_RESULTS == "repetitions"
UNDERLYING_SUCCESSFUL_RESULTS == "successful-repetitions"
MEDIAN_SUFFIX == "_median"

\* SummaryExperiment's tags
_mean(k) == k \o MEAN_SUFFIX
_median(k) == k \o MEDIAN_SUFFIX
_variance(k) == k \o VARIANCE_SUFFIX

\* dict()
EmptyMap == [k \in {} |-> NaN]

\* the record an experiment reports for one run
Report(p, md, res) == [parameters |-> p, metadata |-> md, results |-> res]

Range(s) == {s[i] : i \in 1..Len(s)}

\* a field selection of the constructor: None, or a list of field names
None == [is_none |-> TRUE, ks |-> <<>>]
Only(ks) == [is_none |-> FALSE, ks |-> ks]

(***************************************************************************)
(* The underlying experiments.  The combinators see them only through the  *)
(* records they return.                                                    *)
(***************************************************************************)
\* SampleExperiment1 of the tests: always succeeds, result = params['x']
SampleExperiment1(p) ==
    {Report(p, [status |-> TRUE, elapsed_time |-> t], [result |-> p.x]) : t \in Times}

\* an experiment that honours the contract and whose runs may fail: every
\* record carries status, the elapsed time and the result field (a run's
\* elapsed time grows with its value)
FlakyExperiment(p) ==
    {Report(p, [status |-> b, elapsed_time |-> 2 * v - 1], [result |-> v]) :
        b \in BOOLEAN, v \in Values}

\* an experiment whose records do not all carry the same result fields
MixedExperiment(p) ==
    {Report(p, [status |-> b, elapsed_time |-> 1], res) :
        b \in BOOLEAN,
        res \in {[result |-> v] : v \in Values} \cup {[result |-> 1, extra |-> 4]}}

\* an experiment that breaks the contract: a record may lack status, the
\* elapsed time or the result field
MalformedExperiment(p) ==
    {Report(p, [elapsed_time |-> 1], [result |-> 1]),
     Report(p, [status |-> TRUE], [result |-> 1])}
    \cup {Report(p, [status |-> b, elapsed_time |-> 1], res) :
            b \in BOOLEAN, res \in {EmptyMap, [result |-> 1]}}

\* Experiment.runExperiment(params): the records one run may return
RunExperiment(ex, p) ==
    CASE ex = "SampleExperiment1" -> SampleExperiment1(p)
      [] ex = "FlakyExperiment" -> FlakyExperiment(p)
      [] ex = "MixedExperiment" -> MixedExperiment(p)
      [] ex = "MalformedExperiment" -> MalformedExperiment(p)

\* Experiment.run() of an experiment that yields a list of records
Run(ex, p) == UNION {[1..m -> RunExperiment(ex, p)] : m \in 0..MaxRecords}

(***************************************************************************)
(* The aggregation steps.  A step that can raise (a KeyError on a missing  *)
(* field, an IndexError) yields [raised, ...].                             *)
(***************************************************************************)
\* res[METADATA][STATUS] raises on a record without status
FilterRaises(results) ==
    \E i \in 1..Len(results) : STATUS \notin DOMAIN results[i].metadata

\* no run is dropped
Unfiltered(results) == results

\* [ res for res in results if res[METADATA][STATUS] ]
Successful(results) == SelectSeq(results, LAMBDA res : res.metadata[STATUS])

\* [ res[RESULTS][k] for res in results ]
ResultValues(results, k) == [i \in 1..Len(results) |-> results[i].results[k]]

\* [ res[METADATA][k] for res in results ]
MetadataValues(results, k) == [i \in 1..Len(results) |-> results[i].metadata[k]]

\* the result fields to summarise: the selection, or the first record's keys
ResultKeys(sel, results) ==
    IF sel.is_none THEN DOMAIN results[1].results ELSE Range(sel.ks)

RECURSIVE RepeatedStats(_, _)
RepeatedStats(ks, results) ==
    IF ks = {} THEN EmptyMap
    ELSE LET k  == CHOOSE f \in ks : TRUE
             vs == ResultValues(results, k)
         IN ((k \o MEAN_SUFFIX) :> Mean(vs)) @@ ((k \o VARIANCE_SUFFIX) :> Var(vs))
            @@ RepeatedStats(ks \ {k}, results)

\* summarise without its guard for an empty list: results[0] raises an
\* IndexError, and a given selection yields statistics of nothing
UnguardedSummarise(sel, results) ==
    IF sel.is_none /\ Len(results) = 0 THEN [raised |-> TRUE, summary |-> EmptyMap]
    ELSE LET ks == ResultKeys(sel, results)
         IN IF \E k \in ks : \E i \in 1..Len(results) : k \notin DOMAIN results[i].results
            THEN [raised |-> TRUE, summary |-> EmptyMap]
            ELSE [raised |-> FALSE, summary |-> RepeatedStats(ks, results)]

\* RepeatedExperiment.summarise
RepeatedSummarise(sel, results) ==
    IF Len(results) = 0 THEN [raised |-> FALSE, summary |-> EmptyMap]
    ELSE LET ks == ResultKeys(sel, results)
         IN IF \E k \in ks : \E i \in 1..Len(results) : k \notin DOMAIN results[i].results
            THEN [raised |-> TRUE, summary |-> EmptyMap]
            ELSE [raised |-> FALSE, summary |-> RepeatedStats(ks, results)]

RECURSIVE SummaryStats(_, _)
SummaryStats(ks, results) ==
    IF ks = {} THEN EmptyMap
    ELSE LET k  == CHOOSE f \in ks : TRUE
             vs == ResultValues(results, k)
         IN (_mean(k) :> Mean(vs)) @@ (_median(k) :> Median(vs))
            @@ (_variance(k) :> Var(vs)) @@ SummaryStats(ks \ {k}, results)

\* summarise skipping the records that lack a field instead of raising
SkippingSummarise(sel, results) ==
    IF Len(results) = 0 THEN [raised |-> FALSE, summary |-> EmptyMap]
    ELSE LET ks == ResultKeys(sel, results)
             ok == SelectSeq(results, LAMBDA res : ks \subseteq DOMAIN res.results)
         IN [raised |-> FALSE, summary |-> SummaryStats(ks, ok)]

\* SummaryExperiment.summarise
SummarySummarise(sel, results) ==
    IF Len(results) = 0 THEN [raised |-> FALSE, summary |-> EmptyMap]
    ELSE LET ks == ResultKeys(sel, results)
         IN IF \E k \in ks : \E i \in 1..Len(results) : k \notin DOMAIN results[i].results
            THEN [raised |-> TRUE, summary |-> EmptyMap]
            ELSE [raised |-> FALSE, summary |-> SummaryStats(ks, results)]

\* the metadata fields to summarise: the selection, or the elapsed time
MetadataKeys(sel) == IF sel.is_none THEN <<ELAPSED_TIME>> ELSE sel.ks

\* the requested count recorded as the completed one
RequestedAsCompleted(t, n, results) ==
    (REQUESTED_REPETITIONS :> n) @@ (REPETITIONS :> n) @@ t

\* the repetition statistics summariseMetadata adds last
RepetitionStatistics(t, n, results) ==
    (REQUESTED_REPETITIONS :> n) @@ (REPETITIONS :> Len(results)) @@ t

\* the loop of summariseMetadata over the fields ks, writing into t; a field
\* a record lacks raises before anything is written for that field
RECURSIVE UnderlyingStats(_, _, _)
UnderlyingStats(t, ks, results) ==
    IF Len(ks) = 0 THEN [raised |-> FALSE, timings |-> t]
    ELSE LET k == Head(ks)
         IN IF \E i \in 1..Len(results) : k \notin DOMAIN results[i].metadata
            THEN [raised |-> TRUE, timings |-> t]
            ELSE LET vs == MetadataValues(results, k)
                 IN UnderlyingStats(
                        ((UNDERLYING_PREFIX \o k \o MEAN_SUFFIX) :> Mean(vs))
                        @@ ((UNDERLYING_PREFIX \o k \o VARIANCE_SUFFIX) :> Var(vs))
                        @@ t,
                        Tail(ks), results)

\* RepeatedExperiment.summariseMetadata on the metadata record t
SummariseMetadata(t, sel, n, results) ==
    LET u == UnderlyingStats(t, MetadataKeys(sel), results)
    IN IF u.raised THEN u
       ELSE [raised |-> FALSE, timings |-> RepetitionStatistics(u.timings, n, results)]

\* a loop that a failed run ends
StopsAtFailure(results, n) ==
    /\ Len(results) < n
    /\ \A i \in 1..Len(results) : results[i].metadata[STATUS]

\* for i in xrange(N): another repetition is due
LoopContinues(results, n) == Len(results) < n

(***************************************************************************)
(* The state: one combinator object, the position of its do() call, and    *)
(* what its collaborators hold.                                            *)
(***************************************************************************)
VARIABLES
    combinator,            \* the class of the object: RepeatedExperiment or SummaryExperiment
    experiment,            \* self._experiment, the underlying experiment
    N,                     \* self._N (0 in a SummaryExperiment, which has none)
    summarised_results,    \* self._summarised_results
    summarised_metadata,   \* self._summarised_metadata (RepeatedExperiment)
    timings,               \* self._timings, RepeatedExperiment's metadata record
    metadata,              \* self._metadata, SummaryExperiment's metadata record
    pc,                    \* the position of do(): idle, loop, summarise,
                           \* summariseMetadata, run, returned or raised
    params,                \* the argument of the current do() call
    results,               \* do's list of raw records
    successfulResults,     \* do's list of successful records
    summary,               \* the summary do() builds and returns
    invoked,               \* the underlying experiment's runs in this call, in order
    calls,                 \* the number of do() calls made so far
    lab,                   \* whether a Lab drives the combinator
    notebook               \* the Lab's notebook

vars == <<combinator, experiment, N, summarised_results, summarised_metadata,
          timings, metadata, pc, params, results, successfulResults, summary,
          invoked, calls, lab, notebook>>

object == <<combinator, experiment, N, summarised_results, summarised_metadata, lab>>

\* __init__ of either class, for an underlying experiment among exs and
\* selections among rsels and msels, and the first call not yet made
Construct(exs, rsels, msels, labs) ==
    /\ combinator \in {"RepeatedExperiment", "SummaryExperiment"}
    /\ experiment \in exs
    /\ N \in IF combinator = "RepeatedExperiment" THEN 1..MaxN ELSE {0}
    /\ summarised_results \in rsels
    /\ summarised_metadata \in IF combinator = "RepeatedExperiment" THEN msels ELSE {None}
    /\ lab \in labs
    /\ timings = EmptyMap
    /\ metadata = EmptyMap
    /\ pc = "idle"
    /\ params = EmptyMap
    /\ results = <<>>
    /\ successfulResults = <<>>
    /\ summary = EmptyMap
    /\ invoked = <<>>
    /\ calls = 0
    /\ notebook = <<>>

\* RepeatedExperiment.repetitions
repetitions == N

\* Lab.runExperiment: the record of one returned do() call goes to the notebook
AddResult(nb, p, md, res) ==
    IF lab THEN Append(nb, Report(p, (STATUS :> TRUE) @@ md, res)) ELSE nb

\* a caller (or the Lab, at a point of its parameter space) calls do(params)
\* on a RepeatedExperiment: N = self.repetitions(); results = []
DoCall(p) ==
    /\ combinator = "RepeatedExperiment"
    /\ pc \in {"idle", "returned", "raised"}
    /\ calls < MaxCalls
    /\ calls' = calls + 1
    /\ params' = p
    /\ results' = <<>>
    /\ successfulResults' = <<>>
    /\ summary' = EmptyMap
    /\ invoked' = <<>>
    /\ pc' = "loop"
    /\ UNCHANGED <<object, timings, metadata, notebook>>

\* one pass of the loop: res = self.doOne(params); results.append(res)
doOne ==
    /\ pc = "loop"
    /\ LoopContinues(results, repetitions)
    /\ \E res \in RunExperiment(experiment, params) :
          /\ invoked' = Append(invoked, [params |-> params, record |-> res])
          /\ results' = Append(results, res)
    /\ UNCHANGED <<object, timings, metadata, pc, params, successfulResults,
                   summary, calls, notebook>>

\* the loop is over: filter out unsuccessful repetitions
DoFilter ==
    /\ pc = "loop"
    /\ ~LoopContinues(results, repetitions)
    /\ IF FilterRaises(results)
       THEN pc' = "raised" /\ UNCHANGED successfulResults
       ELSE pc' = "summarise" /\ successfulResults' = Successful(results)
    /\ UNCHANGED <<object, timings, metadata, params, results, summary,
                   invoked, calls, notebook>>

\* summary = self.summarise(successfulResults)
DoSummarise ==
    /\ pc = "summarise"
    /\ LET r == RepeatedSummarise(summarised_results, successfulResults)
       IN IF r.raised
          THEN pc' = "raised" /\ UNCHANGED summary
          ELSE pc' = "summariseMetadata" /\ summary' = r.summary
    /\ UNCHANGED <<object, timings, metadata, params, results, successfulResults,
                   invoked, calls, notebook>>

\* self.summariseMetadata(successfulResults); return summary
DoSummariseMetadata ==
    /\ pc = "summariseMetadata"
    /\ LET r == SummariseMetadata(timings, summarised_metadata, repetitions,
                                  successfulResults)
       IN /\ timings' = r.timings
          /\ IF r.raised
             THEN pc' = "raised" /\ UNCHANGED notebook
             ELSE /\ pc' = "returned"
                  /\ notebook' = AddResult(notebook, params, r.timings, summary)
    /\ UNCHANGED <<object, metadata, params, results, successfulResults, summary,
                   invoked, calls>>

\* counts added to those of the call before
AccumulatedMetadata(md, rs, srs) ==
    LET old == IF UNDERLYING_RESULTS \in DOMAIN md THEN md[UNDERLYING_RESULTS] ELSE 0
    IN (UNDERLYING_RESULTS :> old + Len(rs))
       @@ (UNDERLYING_SUCCESSFUL_RESULTS :> Len(srs)) @@ md

\* the two metadata values SummaryExperiment.do records
SummaryMetadata(md, rs, srs) ==
    (UNDERLYING_RESULTS :> Len(rs)) @@ (UNDERLYING_SUCCESSFUL_RESULTS :> Len(srs)) @@ md

\* SummaryExperiment.do(params) is called and sets the parameters of the
\* underlying experiment
SummaryDo(p) ==
    /\ combinator = "SummaryExperiment"
    /\ pc \in {"idle", "returned", "raised"}
    /\ calls < MaxCalls
    /\ calls' = calls + 1
    /\ params' = p
    /\ results' = <<>>
    /\ successfulResults' = <<>>
    /\ summary' = EmptyMap
    /\ invoked' = <<>>
    /\ pc' = "run"
    /\ UNCHANGED <<object, timings, metadata, notebook>>

\* the rest of SummaryExperiment.do: run the underlying experiment, extract
\* the successful runs, record the metadata, summarise and return
SummaryRun ==
    /\ pc = "run"
    /\ \E rs \in Run(experiment, params) :
          /\ results' = rs
          /\ invoked' = [i \in 1..Len(rs) |-> [params |-> params, record |-> rs[i]]]
          /\ IF FilterRaises(rs)
             THEN /\ pc' = "raised"
                  /\ UNCHANGED <<successfulResults, summary, metadata, notebook>>
             ELSE LET sresults == Successful(rs)
                      md == SummaryMetadata(metadata, rs, sresults)
                      r  == SummarySummarise(summarised_results, sresults)
                  IN /\ successfulResults' = sresults
                     /\ metadata' = md
                     /\ summary' = r.summary
                     /\ IF r.raised
                        THEN pc' = "raised" /\ UNCHANGED notebook
                        ELSE /\ pc' = "returned"
                             /\ notebook' = AddResult(notebook, params, md, r.summary)
    /\ UNCHANGED <<object, timings, params, calls>>

Next ==
    \/ \E p \in ParameterSpace : DoCall(p)
    \/ doOne
    \/ DoFilter
    \/ DoSummarise
    \/ DoSummariseMetadata
    \/ \E p \in ParameterSpace : SummaryDo(p)
    \/ SummaryRun

\* underlying experiments that honour the contract; no selection, or the
\* field every record carries
Init ==
    Construct({"SampleExperiment1", "FlakyExperiment"},
              {None, Only(<<"result">>)}, {None}, {FALSE})

Spec == Init /\ [][Next]_vars

\* any underlying experiment, the contract honoured or not
InitOpen ==
    Construct({"MixedExperiment", "MalformedExperiment"},
              {None, Only(<<"result">>)}, {None}, {FALSE})

SpecOpen == InitOpen /\ [][Next]_vars

\* the tests' setting: a Lab runs a combinator over SampleExperiment1
InitLab ==
    Construct({"SampleExperiment1"}, {None}, {None}, {TRUE})

SpecLab == InitLab /\ [][Next]_vars

(***************************************************************************)
(* do() as one function of the raw records rs, on a combinator whose       *)
(* metadata record is still empty: what it returns, or that it raises.     *)
(***************************************************************************)
DoOutcome(rs) ==
    IF FilterRaises(rs) THEN [raised |-> TRUE, summary |-> EmptyMap]
    ELSE IF combinator = "RepeatedExperiment"
    THEN LET r == RepeatedSummarise(summarised_results, Successful(rs))
             m == SummariseMetadata(EmptyMap, summarised_metadata, repetitions,
                                    Successful(rs))
         IN IF r.raised \/ m.raised THEN [raised |-> TRUE, summary |-> EmptyMap] ELSE r
    ELSE SummarySummarise(summarised_results, Successful(rs))

(***************************************************************************)
(* Vocabulary of the properties: the statistics stated without the code's  *)
(* way of computing them.                                                  *)
(***************************************************************************)
Returned == pc = "returned"
Finished == pc \in {"returned", "raised"}
Repeated == combinator = "RepeatedExperiment"
Summarising == combinator = "SummaryExperiment"

HasStatus(res) == STATUS \in DOMAIN res.metadata
Succeeded(res) == HasStatus(res) /\ res.metadata[STATUS]

\* the positions of the successful and of the failed records of rs
SuccessfulRuns(rs) == {i \in 1..Len(rs) : Succeeded(rs[i])}
FailedRuns(rs) == {i \in 1..Len(rs) : HasStatus(rs[i]) /\ ~rs[i].metadata[STATUS]}

RECURSIVE Total(_, _)
Total(I, f) ==
    IF I = {} THEN 0
    ELSE LET i == CHOOSE j \in I : TRUE IN f[i] + Total(I \ {i}, f)

\* q is the arithmetic mean of the values f[i], i in I
IsMeanOf(q, I, f) ==
    /\ I # {}
    /\ q.d > 0
    /\ q.n * Cardinality(I) = q.d * Total(I, f)

\* q is the population variance of the values f[i], i in I
IsVarianceOf(q, I, f) ==
    LET c  == Cardinality(I)
        sq == [i \in I |-> f[i] * f[i]]
    IN /\ I # {}
       /\ q.d > 0
       /\ q.n * c * c = q.d * (c * Total(I, sq) - Total(I, f) * Total(I, f))

\* q is the median of the values f[i], i in I: a value with fewer than half
\* of the values on either side, or the midpoint of the two middle values
IsMedianOf(q, I, f) ==
    LET c == Cardinality(I)
        below(v) == Cardinality({i \in I : f[i] < v})
        above(v) == Cardinality({i \in I : f[i] > v})
    IN /\ I # {}
       /\ q.d > 0
       /\ \/ \E i \in I : /\ q.n = q.d * f[i]
                          /\ 2 * below(f[i]) < c
                          /\ 2 * above(f[i]) < c
          \/ \E i, j \in I : /\ f[i] < f[j]
                             /\ 2 * q.n = q.d * (f[i] + f[j])
                             /\ 2 * above(f[i]) = c
                             /\ 2 * below(f[j]) = c

ResultOf(rs, k) == [i \in 1..Len(rs) |-> rs[i].results[k]]
ElapsedOf(rs) == [i \in 1..Len(rs) |-> rs[i].metadata[ELAPSED_TIME]]

\* the orders in which n records can be arranged
Orders(n) == {f \in [1..n -> 1..n] : \A i, j \in 1..n : f[i] = f[j] => i = j}
Permuted(rs, f) == [i \in 1..Len(rs) |-> rs[f[i]]]

(***************************************************************************)
(* The properties.                                                         *)
(***************************************************************************)
Zero == [n |-> 0, d |-> 1]

C2_RepetitionCounts ==
    (Repeated /\ Returned)
    => /\ Len(results) = N
       /\ timings[REQUESTED_REPETITIONS] = N
       /\ timings[REPETITIONS] = N - Cardinality(FailedRuns(results))

\* a call has returned in which some but not all of N = 3 runs failed
C2_Witness ==
    /\ Repeated
    /\ Returned
    /\ N = 3
    /\ Cardinality(FailedRuns(results)) = 2
    /\ timings[REPETITIONS] = 1

\* C3: after SummaryExperiment.do on t records of which s are successful,
\* the metadata has repetitions = t and successful-repetitions = s, and the
\* mean, median and variance returned are those of the successful records'
\* values alone; with s = 0 nothing is returned.
C3_SummaryOverSuccessful ==
    (Summarising /\ Returned)
    => LET I == SuccessfulRuns(results)
           f == ResultOf(results, "result")
       IN /\ metadata[UNDERLYING_RESULTS] = Len(results)
          /\ metadata[UNDERLYING_SUCCESSFUL_RESULTS] = Cardinality(I)
          /\ IF I = {} THEN summary = EmptyMap
             ELSE /\ DOMAIN summary = {"result_mean", "result_median", "result_variance"}
                  /\ IsMeanOf(summary["result_mean"], I, f)
                  /\ IsMedianOf(summary["result_median"], I, f)
                  /\ IsVarianceOf(summary["result_variance"], I, f)

\* a SummaryExperiment has summarised three records, one of them failed with
\* a value that would have changed the median
C3_Witness ==
    /\ Summarising
    /\ Returned
    /\ Len(results) = 3
    /\ Cardinality(SuccessfulRuns(results)) = 2
    /\ \E i \in FailedRuns(results) : results[i].results["result"] = 2
    /\ summary["result_median"] = [n |-> 1, d |-> 1]

\* C4: a do call none of whose records is successful (every run failed, or
\* the list is empty) returns normally, and what it returns is the empty map.
C4_NoSuccessfulRecord ==
    (Finished /\ SuccessfulRuns(results) = {})
    => /\ Returned
       /\ summary = EmptyMap

\* all of N = 2 runs failed, do has returned, and the metadata statistics
\* taken over the empty list are not-a-number
C4_Witness ==
    /\ Repeated
    /\ Returned
    /\ N = 2
    /\ Cardinality(FailedRuns(results)) = 2
    /\ timings["underlying_elapsed_time_mean"] = NaN
    /\ timings[REPETITIONS] = 0

\* C5: aggregation is order-independent: do has the same outcome (the same
\* summary, or an error) on every rearrangement of the records it collected,
\* also when no fields are selected and the records do not all carry the
\* same result fields.
C5_OrderIndependent ==
    Finished
    => \A f \in Orders(Len(results)) :
          DoOutcome(Permuted(results, f))
              = [raised |-> ~Returned, summary |-> IF Returned THEN summary ELSE EmptyMap]

\* the result fields selected for summarisation from the records rs: the
\* selection given, or the fields of the first successful record
SelectedResults(rs) ==
    IF ~summarised_results.is_none THEN Range(summarised_results.ks)
    ELSE IF SuccessfulRuns(rs) = {} THEN {}
    ELSE LET first == CHOOSE i \in SuccessfulRuns(rs) :
                          \A j \in SuccessfulRuns(rs) : i <= j
         IN DOMAIN rs[first].results

\* the metadata fields selected for summarisation (RepeatedExperiment only)
SelectedMetadata ==
    IF Repeated THEN Range(MetadataKeys(summarised_metadata)) ELSE {}

LacksSelected(res, rs) ==
    \/ ~(SelectedResults(rs) \subseteq DOMAIN res.results)
    \/ ~(SelectedMetadata \subseteq DOMAIN res.metadata)

\* C6 as stated: do never returns a summary when some record, successful or
\* not, lacks the status field or a field selected for summarisation.
C6_AnyMalformedRecordRaises ==
    Returned
    => \A i \in 1..Len(results) :
          HasStatus(results[i]) /\ ~LacksSelected(results[i], results)

\* C6 as amended: do never returns a summary when some record lacks the
\* status field or some successful record lacks a selected field; once do
\* has ended with such a record among those it collected, it has raised.
C6_MalformedRecordRaises ==
    (/\ Finished
     /\ \E i \in 1..Len(results) :
           \/ ~HasStatus(results[i])
           \/ Succeeded(results[i]) /\ LacksSelected(results[i], results))
    => pc = "raised"

\* do has raised on three records of which only the last, a successful one,
\* lacks the selected result field
C6_Witness ==
    /\ pc = "raised"
    /\ Len(results) = 3
    /\ summarised_results = Only(<<"result">>)
    /\ \A i \in 1..3 : HasStatus(results[i]) /\ ELAPSED_TIME \in DOMAIN results[i].metadata
    /\ \A i \in 1..2 : "result" \in DOMAIN results[i].results
    /\ Succeeded(results[3])
    /\ "result" \notin DOMAIN results[3].results

\* C7: whatever runs fail, RepeatedExperiment.do does not raise; every mean
\* and variance it computes, of the result and of the elapsed time, is that
\* of the successful records' values alone (not-a-number or absent when there
\* are none); the failed runs are counted in requested_repetitions.
C7_FailureIsData ==
    Repeated
    => /\ pc # "raised"
       /\ Returned
          => LET I == SuccessfulRuns(results)
                 f == ResultOf(results, "result")
                 e == ElapsedOf(results)
             IN /\ timings[REQUESTED_REPETITIONS]
                      = Cardinality(I) + Cardinality(FailedRuns(results))
                /\ IF I = {}
                   THEN /\ summary = EmptyMap
                        /\ timings["underlying_elapsed_time_mean"] = NaN
                        /\ timings["underlying_elapsed_time_variance"] = NaN
                   ELSE /\ DOMAIN summary = {"result_mean", "result_variance"}
                        /\ IsMeanOf(summary["result_mean"], I, f)
                        /\ IsVarianceOf(summary["result_variance"], I, f)
                        /\ IsMeanOf(timings["underlying_elapsed_time_mean"], I, e)
                        /\ IsVarianceOf(timings["underlying_elapsed_time_variance"], I, e)

\* the middle one of three runs failed with a value and an elapsed time
\* that differ from those of the two successful runs
C7_Witness ==
    /\ Repeated
    /\ Returned
    /\ N = 3
    /\ FailedRuns(results) = {2}
    /\ results[2].results["result"] = 2
    /\ summary["result_mean"] = [n |-> 1, d |-> 1]
    /\ timings["underlying_elapsed_time_mean"] = [n |-> 1, d |-> 1]
    /\ timings[REQUESTED_REPETITIONS] = 3

\* C8: a RepeatedExperiment over result = params['x'] run through a Lab
\* leaves N records per point run in the notebook, each with
\* results['result'] equal to its parameters['x'].
C8_NotebookHoldsEveryRun ==
    (Repeated /\ Returned /\ lab)
    => /\ Len(notebook) = N * calls
       /\ \A i \in 1..Len(notebook) :
             /\ "result" \in DOMAIN notebook[i].results
             /\ notebook[i].results["result"] = notebook[i].parameters["x"]

\* C9: within one RepeatedExperiment.do call the underlying experiment is run
\* exactly N times, each time with the parameters passed to do; the records
\* are collected in the order of the runs; no summarisation step is taken
\* before all N records are collected, nor a run after one; a failed run
\* does not end the loop.
C9_LoopDiscipline ==
    Repeated
    => /\ Len(invoked) = Len(results)
       /\ Len(invoked) <= N
       /\ \A i \in 1..Len(invoked) :
             invoked[i].params = params /\ invoked[i].record = results[i]
       /\ pc \in {"summarise", "summariseMetadata", "returned", "raised"}
             => Len(invoked) = N
       /\ pc = "loop" => (successfulResults = <<>> /\ summary = EmptyMap)

\* C9, the steps: a step that filters, summarises or writes metadata is
\* taken only with all N records collected and runs nothing; a step of the
\* loop appends exactly one run.
C9_Steps ==
    Repeated
    => /\ (successfulResults' # successfulResults \/ summary' # summary
             \/ timings' # timings)
          => (pc' = "loop" \/ (Len(invoked) = N /\ invoked' = invoked))
       /\ (pc = "loop" /\ invoked' # invoked)
          => /\ Len(invoked') = Len(invoked) + 1
             /\ SubSeq(invoked', 1, Len(invoked)) = invoked

\* C9, in full: the discipline holds in every state of a call and every
\* step of a call keeps to it.
C9_RepeatsThenAggregates == [](C9_LoopDiscipline) /\ [][C9_Steps]_vars

\* a call of N = 3 runs has returned although its first run failed
C9_Witness ==
    /\ Repeated
    /\ Returned
    /\ N = 3
    /\ Len(invoked) = 3
    /\ 1 \in FailedRuns(results)
    /\ Succeeded(results[3])

\* C10: whatever calls came before, what the last do call returned and every
\* metadata field it wrote are what a newly constructed combinator yields for
\* the records of that call.
C10_NoCarryOver ==
    Returned
    => /\ summary = DoOutcome(results).summary
       /\ Repeated
          => timings = SummariseMetadata(EmptyMap, summarised_metadata, N,
                                         Successful(results)).timings
       /\ Summarising
          => metadata = SummaryMetadata(EmptyMap, results, Successful(results))

\* a second call on a SummaryExperiment has returned with no record, after a
\* first call that recorded other counts could have
C10_Witness ==
    /\ Summarising
    /\ Returned
    /\ calls = 2
    /\ Len(results) = 1
    /\ metadata[UNDERLYING_RESULTS] = 1
    /\ metadata[UNDERLYING_SUCCESSFUL_RESULTS] = 0

=============================================================================
